---------------------------- MODULE Spec2Model ----------------------------
(* A state-machine model of auto_subtitle.py: the BiliBiliSession class     *)
(* (credential load, QR-code login, guarded get), the metadata lookup       *)
(* get_video_info, the subtitle lookup get_subtitle_url and the part loop   *)
(* of main.  The remote service and the operator are the environment: each  *)
(* request or sleep picks its outcome nondeterministically.                 *)
EXTENDS Integers, Sequences, FiniteSets, TLC

(***************************************************************************)
(* Bounds of the model.                                                    *)
(***************************************************************************)
MaxParts == 2   \* longest declared "pages" list the metadata endpoint returns
MaxSubs == 2    \* longest "subtitles" list the lookup endpoint returns
MaxChars == 2   \* longest str value of a dict handed to encode_params
MaxKeyLen == 66 \* longest concatenation of key fragments handed to get_mixin_key

(***************************************************************************)
(* Program constants.                                                      *)
(***************************************************************************)
NOT_LOGGED_IN == -101     \* business code tested by BiliBiliSession.get
QR_EXPIRED == 86038       \* poll status: QR code expired
QR_SCANNED == 86090       \* poll status: scanned, waiting for confirmation
retries == 3              \* get_subtitle_url default attempt budget
delay == 2                \* get_subtitle_url default retry sleep (seconds)
POLL_INTERVAL == 2        \* login_by_qrcode sleep between polls (seconds)
PART_PAUSE == 1           \* main sleep between parts (seconds)

(***************************************************************************)
(* Values.  Python's None is the string "None"; every scalar of the model  *)
(* is a string or an integer so that values stay comparable.               *)
(***************************************************************************)
None == "None"
Falsy(v) == v \in {None, ""}          \* "not v" for None and str values

CookieNames == {"SESSDATA", "bili_jct", "DedeUserID"}
EmptyJar == [k \in CookieNames |-> None]
\* the value the remote service gives a cookie on a successful poll
FreshCookie(k) ==
    CASE k = "SESSDATA" -> "s1" [] k = "bili_jct" -> "c1" [] OTHER -> "u1"

\* cookie.json: absent, not JSON, or a JSON object (keys possibly missing,
\* "extra" stands for any further key the file may hold)
NoStore(st) ==
    [state |-> st, SESSDATA |-> None, bili_jct |-> None,
     DedeUserID |-> None, extra |-> None]
InitialStores ==
    {NoStore("absent"), NoStore("badjson")} \cup
    [state : {"ok"}, SESSDATA : {None, "", "s0"}, bili_jct : {None, "", "c0"},
     DedeUserID : {"u0"}, extra : {None, "x"}]

\* the cookies a successful poll may set: the user id comes with the session
\* token, each token may be left out
PollCookieSets ==
    {S \cup (IF "SESSDATA" \in S THEN {"DedeUserID"} ELSE {}) :
        S \in SUBSET {"SESSDATA", "bili_jct"}}

\* business codes the remote service answers with
BusinessCodes == {0, NOT_LOGGED_IN, -400}
PollCodes == {0, QR_EXPIRED, QR_SCANNED, 86101}

\* the media item behind the bvid: view_data["aid"], ["cid"], ["title"]
Item == [aid |-> 100, cid |-> 7, title |-> "T"]
DeclaredPages(n) ==
    [i \in 1..n |-> [cid |-> 10 + i, page |-> i, part |-> "part"]]
\* view_data["pages"] as the remote may answer it: key missing, null, or a list
PagesAnswers ==
    {[kind |-> "missing", list |-> <<>>], [kind |-> "null", list |-> <<>>]} \cup
    {[kind |-> "list", list |-> DeclaredPages(n)] : n \in 0..MaxParts}

\* subtitle descriptors of the lookup endpoint; a descriptor without the
\* "subtitle_url" key reads as None through sub.get, which the tests of lines
\* 330 and 334 take like the empty url
Languages == {"ai-zh", "en"}
SubUrls == {"", "//a", "//b"}
Descriptors == [lan : Languages, subtitle_url : SubUrls]
SeqsUpTo(S, n) == UNION {[1..k -> S] : k \in 0..n}
SubtitleLists == SeqsUpTo(Descriptors, MaxSubs)
\* data["data"]["subtitle"]: the "subtitles" key missing, or a list
SubtitleAnswers ==
    {[kind |-> "missing", list |-> <<>>]} \cup
    {[kind |-> "list", list |-> l] : l \in SubtitleLists}

NoBody == [kind |-> "none", list |-> <<>>]
NoResp == [code |-> 0, body |-> NoBody, seq |-> 0]
NoReq == [url |-> "none", params |-> <<>>]

(***************************************************************************)
(* WBI signing.  A str is a sequence of one-character strings; a dict is   *)
(* the sequence of its items in insertion order; a value of a dict is      *)
(* tagged with its Python type, an int carrying its decimal rendering.     *)
(***************************************************************************)
\* characters to make strs of
Alphabet ==
    <<"0", "1", "2", "3", "4", "5", "6", "7", "8", "9", "a", "b", "c", "d",
      "e", "f", "g", "h", "i", "j", "k", "l", "m", "n", "o", "p", "q", "r",
      "s", "t", "u", "v", "w", "x", "y", "z", "A", "B", "C", "D", "E", "F",
      "G", "H", "I", "J", "K", "L", "M", "N", "O", "P", "Q", "R", "S", "T",
      "U", "V", "W", "X", "Y", "Z", "-", "_", ".", "~", "+">>
IntVal(n) == [t |-> "int", v |-> <<ToString(n)>>]
StrVal(chars) == [t |-> "str", v |-> chars]
Keys(d) == {d[i].k : i \in 1..Len(d)}

\* d[k] = v: an existing key keeps its place, a new key goes to the end
SetItem(d, k, v) ==
    IF k \in Keys(d)
    THEN [i \in 1..Len(d) |-> IF d[i].k = k THEN [k |-> k, v |-> v] ELSE d[i]]
    ELSE Append(d, [k |-> k, v |-> v])

\* lines 267-272: the position table
table ==
    <<46, 47, 18, 2, 53, 8, 23, 32, 15, 50, 10, 31, 58, 3, 45, 35, 27, 43, 5, 49,
      33, 9, 42, 19, 29, 28, 14, 39, 12, 38, 41, 13, 37, 48, 7, 16, 24, 55, 40,
      61, 26, 17, 0, 1, 60, 51, 30, 4, 22, 25, 54, 21, 56, 59, 6, 63, 57, 62, 11,
      36, 20, 34, 44, 52>>

\* get_mixin_key counting the positions of the table from 1
get_mixin_key_FromOne(img_key, sub_key) ==
    LET s == img_key \o sub_key
    IN  IF \E i \in 1..Len(table) : table[i] >= Len(s)
        THEN [exc |-> "IndexError", val |-> <<>>]
        ELSE [exc |-> None,
              val |-> SubSeq([i \in 1..Len(table) |->
                                s[IF table[i] = 0 THEN Len(s) ELSE table[i]]], 1, 32)]

\* get_mixin_key (lines 265-273): s[i] for every i of the table, an
\* IndexError when s is too short for one of them, then the first 32
get_mixin_key(img_key, sub_key) ==
    LET s == img_key \o sub_key
    IN  IF \E i \in 1..Len(table) : table[i] >= Len(s)
        THEN [exc |-> "IndexError", val |-> <<>>]
        ELSE [exc |-> None,
              val |-> SubSeq([i \in 1..Len(table) |-> s[table[i] + 1]], 1, 32)]

\* line 282: the five characters taken out of every str value
CleanValue(val) ==
    LET Kept(c) == c \notin {"!", "'", "(", ")", "*"}
    IN  IF val.t = "str" THEN StrVal(SelectSeq(val.v, Kept)) ELSE val

\* the keys of the model in ascending order of Python's str comparison
KeyOrder == <<"aid", "cid", "isGaiaAvoided", "w_rid", "web_location", "wts">>
KeyRank(k) == CHOOSE i \in 1..Len(KeyOrder) : KeyOrder[i] = k

\* SortedItems leaving the items in insertion order
SortedItems_Unsorted(d) == d

\* line 284: dict(sorted(params.items())); the keys of a dict are distinct
SortedItems(d) ==
    [r \in 1..Len(d) |->
        d[CHOOSE i \in 1..Len(d) :
            Cardinality({j \in 1..Len(d) : KeyRank(d[j].k) < KeyRank(d[i].k)}) = r - 1]]

\* urllib.parse.quote_plus on one character
QuotePlus(c) ==
    CASE c = " " -> "+"
      [] c = "!" -> "%21"
      [] c = "'" -> "%27"
      [] c = "(" -> "%28"
      [] c = ")" -> "%29"
      [] c = "*" -> "%2A"
      [] OTHER -> c

\* "".join(chars)
Text(chars) ==
    LET upto[i \in 0..Len(chars)] ==
            IF i = 0 THEN "" ELSE upto[i - 1] \o chars[i]
    IN  upto[Len(chars)]

\* line 285: urllib.parse.urlencode: "key=value" with the value rendered by
\* str() and quoted character by character, the parts joined by "&"
UrlEncode(d) ==
    LET item(i) ==
            d[i].k \o "=" \o
            Text([j \in 1..Len(d[i].v.v) |-> QuotePlus(d[i].v.v[j])])
        upto[i \in 0..Len(d)] ==
            IF i = 0 THEN ""
            ELSE IF i = 1 THEN item(1)
            ELSE upto[i - 1] \o "&" \o item(i)
    IN  upto[Len(d)]

\* line 286: hashlib.md5((query + mixin_key).encode()).hexdigest(), a str
\* that names what was digested
Md5Hex(query, mixin_key) ==
    StrVal(<<"md5(" \o query \o Text(mixin_key) \o ")">>)

\* lines 278-283: what encode_params does to the dict it was handed
CleanedInPlace(d, now) ==
    LET stamped == SetItem(d, "wts", IntVal(now))
    IN  [i \in 1..Len(stamped) |->
            [k |-> stamped[i].k, v |-> CleanValue(stamped[i].v)]]

\* encode_params (lines 276-288): the dict it returns
encode_params(d, mixin_key, now) ==
    LET sorted == SortedItems(CleanedInPlace(d, now))
        query == UrlEncode(sorted)
    IN  SetItem(sorted, "w_rid", Md5Hex(query, mixin_key))

VARIABLES
    pc,         \* control point of the single thread
    exitKind,   \* how the process ended ("running" while it runs)
    lan,        \* args.lan
    merge,      \* args.merge
    part,       \* args.part; 0 also stands for "not given" (both are falsy)
    fn,         \* the call of a function that is checked on its own
    store,      \* cookie.json
    jar,        \* self.session.cookies
    csrf,       \* self.csrf
    loginRet,   \* caller of login_by_qrcode: "load", "get" or "none"
    getRet,     \* caller of BiliBiliSession.get: "info", "wbi", "lookup", "download"
    getReq,     \* url and options of the current get call
    resp,       \* the response the last guarded get returned
    getLog,     \* what the current get call did, in order (history)
    getOut,     \* how the current get call ended: "none", "returned", "raised"
    last,       \* the latest interaction with the environment (history)
    pages,      \* pages_list of main
    idx,        \* position of main's loop in target_pages_list
    all_subtitle_lines,  \* main's list of the lines to merge
    visits,     \* per visited part, whether it returned lines (history)
    merged,     \* the merged text file main writes
    params,     \* signed parameters of get_subtitle_url
    attempt,    \* loop variable of get_subtitle_url
    sleeps,     \* the time.sleep(delay) calls of the current get_subtitle_url
                \* call, each with its cause (history)
    result,     \* (sub_url, subtitle_list) returned by get_subtitle_url
    tally       \* lookup requests sent and logins started by the current
                \* get_subtitle_url call (history, kept only when switched on)

argVars == <<lan, merge, part, fn>>
sessVars == <<store, jar, csrf>>
getVars == <<getRet, getReq, resp, getLog, getOut>>
outVars == <<all_subtitle_lines, visits, merged>>
mainVars == <<pages, idx, outVars>>
gsuVars == <<params, attempt, sleeps, result>>
vars == <<pc, exitKind, lan, merge, part, fn, store, jar, csrf, loginRet,
          getRet, getReq, resp, getLog, getOut, last, pages, idx,
          all_subtitle_lines, visits, merged, params, attempt, sleeps, result,
          tally>>

NoResult == [url |-> None, list |-> <<>>, set |-> FALSE]

NoCall == [name |-> "none", args |-> <<>>, obj |-> <<>>, out |-> <<>>]
NoTally == [on |-> FALSE, sent |-> 0, logins |-> 0]
NoFile == [written |-> FALSE, text |-> ""]

\* the state of a fresh process, before the inputs are chosen
Boot ==
    /\ exitKind = "running"
    /\ jar = EmptyJar
    /\ csrf = ""
    /\ loginRet = "none"
    /\ getRet = "none"
    /\ getReq = NoReq
    /\ resp = NoResp
    /\ getLog = <<>>
    /\ getOut = "none"
    /\ last = [op |-> "start", out |-> "ok", code |-> 0]
    /\ pages = <<>>
    /\ idx = 0
    /\ all_subtitle_lines = <<>>
    /\ visits = <<>>
    /\ merged = NoFile
    /\ params = <<>>
    /\ attempt = 0
    /\ sleeps = <<>>
    /\ result = NoResult

\* a run over all parts without --merge, from any cookie.json
Init ==
    /\ Boot
    /\ pc = "load_cookie"
    /\ lan \in {None, "ai-zh"}
    /\ merge = FALSE
    /\ part = 0
    /\ fn = NoCall
    /\ store \in InitialStores
    /\ tally = NoTally

(***************************************************************************)
(* Exceptions.  An exception raised at the current control point goes to  *)
(* the innermost enclosing handler of the source:                          *)
(*   login_by_qrcode's try (lines 112-134) turns KeyboardInterrupt into    *)
(*   exit(); get_subtitle_url's try (lines 316-342) catches                *)
(*   RequestException raised anywhere below its guarded get; main's try    *)
(*   (lines 420-491) catches the rest.                                     *)
(***************************************************************************)
\* Handler without main's except KeyboardInterrupt clause
Handler_NoInterruptClause(e, inLoginTry) ==
    IF e = "KeyboardInterrupt" /\ inLoginTry
    THEN [pc |-> "done", exit |-> "login_cancel"]
    ELSE IF e = "RequestException" /\ getRet = "lookup"
    THEN [pc |-> "gsu_except", exit |-> "running"]
    ELSE IF e \in {"RequestException", "RuntimeError", "KeyError"}
    THEN [pc |-> "done", exit |-> "error"]
    ELSE [pc |-> "done", exit |-> "uncaught"]

\* Handler without the except clause of get_subtitle_url's loop
Handler_NoLoopClause(e, inLoginTry) ==
    IF e = "KeyboardInterrupt" /\ inLoginTry
    THEN [pc |-> "done", exit |-> "login_cancel"]
    ELSE IF e \in {"RequestException", "RuntimeError", "KeyError"}
    THEN [pc |-> "done", exit |-> "error"]
    ELSE IF e = "KeyboardInterrupt"
    THEN [pc |-> "done", exit |-> "interrupt"]
    ELSE [pc |-> "done", exit |-> "uncaught"]

Handler(e, inLoginTry) ==
    IF e = "KeyboardInterrupt" /\ inLoginTry
    THEN [pc |-> "done", exit |-> "login_cancel"]
    ELSE IF e = "RequestException" /\ getRet = "lookup"
    THEN [pc |-> "gsu_except", exit |-> "running"]
    ELSE IF e \in {"RequestException", "RuntimeError", "KeyError"}
    THEN [pc |-> "done", exit |-> "error"]
    ELSE IF e = "KeyboardInterrupt"
    THEN [pc |-> "done", exit |-> "interrupt"]
    ELSE [pc |-> "done", exit |-> "uncaught"]

Raise(e, inLoginTry) ==
    LET h == Handler(e, inLoginTry) IN
    /\ pc' = h.pc
    /\ exitKind' = h.exit
    /\ getOut' = IF getRet # "none" THEN "raised" ELSE getOut
    /\ getRet' = "none"
    /\ loginRet' = "none"

Step(op, out, code) == last' = [op |-> op, out |-> out, code |-> code]

\* the status the process ends with: main returns after printing in both of
\* its handlers (lines 488-491), exit() at lines 126 and 134 carries no
\* status, and only an exception nobody catches ends the interpreter with 1
ExitStatus(kind) == IF kind = "uncaught" THEN 1 ELSE 0

\* what a request or a sleep can do besides completing
Failures == {"RequestException", "KeyboardInterrupt"}

(***************************************************************************)
(* BiliBiliSession                                                         *)
(***************************************************************************)
\* BundleUsable with the cross-site token forgotten
BundleUsable_SessdataOnly(cookies) == ~Falsy(cookies.SESSDATA)

\* line 55: the bundle read from cookie.json has both required fields
BundleUsable(cookies) ==
    ~Falsy(cookies.SESSDATA) /\ ~Falsy(cookies.bili_jct)

\* SavedCookies updating the keys of the existing file instead of replacing it
SavedCookies_Merge(cookies) ==
    [state |-> "ok", SESSDATA |-> cookies["SESSDATA"],
     bili_jct |-> cookies["bili_jct"], DedeUserID |-> cookies["DedeUserID"],
     extra |-> store.extra]

\* save_cookie (lines 82-91): the dict dumped over cookie.json
SavedCookies(cookies) ==
    [state |-> "ok", SESSDATA |-> cookies["SESSDATA"],
     bili_jct |-> cookies["bili_jct"], DedeUserID |-> cookies["DedeUserID"],
     extra |-> None]

\* a call of login_by_qrcode from the given caller
CallLogin(caller) ==
    /\ loginRet' = caller
    /\ pc' = "login_generate"

\* BiliBiliSession.__init__ -> load_cookie (lines 40-69), up to the liveness
\* probe or the login it falls back to
load_cookie ==
    /\ pc = "load_cookie"
    /\ IF store.state # "ok"
       THEN \* no file (line 42) or json.load fails (line 67)
            /\ CallLogin("load")
            /\ Step("load", store.state, 0)
            /\ UNCHANGED <<jar, csrf>>
       ELSE /\ csrf' = store.bili_jct
            /\ IF BundleUsable(store)
               THEN /\ jar' = [jar EXCEPT !["SESSDATA"] = store.SESSDATA,
                                          !["bili_jct"] = store.bili_jct]
                    /\ pc' = "check_login_status"
                    /\ Step("load", "usable", 0)
                    /\ UNCHANGED loginRet
               ELSE \* ValueError (line 56), caught at line 67
                    /\ CallLogin("load")
                    /\ Step("load", "incomplete", 0)
                    /\ UNCHANGED jar
    /\ UNCHANGED <<exitKind, argVars, tally, store, getVars, mainVars, gsuVars>>

\* line 78: the probe's verdict on an answered request
ProbeAccepts(code, isLogin) == code = 0 /\ isLogin

\* check_login_status (lines 71-80) and load_cookie's branch on it (61-65)
check_login_status ==
    /\ pc = "check_login_status"
    /\ \/ \E code \in BusinessCodes, isLogin \in BOOLEAN :
            /\ Step("probe", IF isLogin THEN "isLogin" ELSE "notLogin", code)
            /\ IF ProbeAccepts(code, isLogin)
               THEN pc' = "get_video_info" /\ UNCHANGED loginRet
               ELSE CallLogin("load")
            /\ UNCHANGED <<exitKind, getRet, getOut>>
       \/ \* requests.RequestException is swallowed: the probe answers False
          /\ Step("probe", "RequestException", 0)
          /\ CallLogin("load")
          /\ UNCHANGED <<exitKind, getRet, getOut>>
       \/ /\ Step("probe", "KeyboardInterrupt", 0)
          /\ Raise("KeyboardInterrupt", FALSE)
    /\ UNCHANGED <<argVars, tally, sessVars, getReq, resp, getLog, mainVars, gsuVars>>

\* where login_by_qrcode returns to
LoginReturnPc == IF loginRet = "get" THEN "get_resend" ELSE "get_video_info"

\* login_by_qrcode, lines 95-109: fetch the challenge and show it
login_generate ==
    /\ pc = "login_generate"
    /\ \/ /\ Step("generate", "ok", 0)
          /\ pc' = "login_poll"
          /\ UNCHANGED <<exitKind, getRet, getOut, loginRet>>
       \/ \E e \in Failures :
            /\ Step("generate", e, 0)
            /\ Raise(e, FALSE)
    /\ UNCHANGED <<argVars, tally, sessVars, getReq, resp, getLog, mainVars, gsuVars>>

\* PollVerdict without the expiry branch
PollVerdict_NoExpiry(code) == IF code = 0 THEN "success" ELSE "wait"

\* lines 119-129: what the poll loop does with a status code
PollVerdict(code) ==
    IF code = 0 THEN "success"
    ELSE IF code = QR_EXPIRED THEN "expired"
    ELSE "wait"

\* login_by_qrcode, lines 113-129: one poll of the status endpoint.  On
\* success the remote has set the cookies in `set`; csrf is read back and the
\* bundle is saved before the loop is left.
login_poll ==
    /\ pc = "login_poll"
    /\ \/ \E code \in PollCodes, set \in PollCookieSets :
            /\ (PollVerdict(code) # "success") => set = {}
            /\ Step("poll", "ok", code)
            /\ LET newJar == [k \in CookieNames |->
                                IF k \in set THEN FreshCookie(k) ELSE jar[k]]
               IN  CASE PollVerdict(code) = "success" ->
                          /\ jar' = newJar
                          /\ csrf' = newJar["bili_jct"]
                          /\ store' = SavedCookies(newJar)
                          /\ pc' = LoginReturnPc
                          /\ loginRet' = "none"
                          /\ UNCHANGED <<exitKind, getRet, getOut>>
                     [] PollVerdict(code) = "expired" ->
                          \* exit() at line 126
                          /\ pc' = "done"
                          /\ exitKind' = "login_expired"
                          /\ getOut' = IF getRet # "none" THEN "raised" ELSE getOut
                          /\ getRet' = "none"
                          /\ loginRet' = "none"
                          /\ UNCHANGED sessVars
                     [] OTHER ->
                          /\ pc' = "login_sleep"
                          /\ UNCHANGED <<exitKind, getRet, getOut, loginRet, sessVars>>
       \/ \E e \in Failures :
            /\ Step("poll", e, 0)
            /\ Raise(e, TRUE)
            /\ UNCHANGED sessVars
    /\ UNCHANGED <<argVars, tally, getReq, resp, getLog, mainVars, gsuVars>>

\* login_by_qrcode, line 131: time.sleep(2) inside the try
login_sleep ==
    /\ pc = "login_sleep"
    /\ \/ /\ Step("poll_sleep", "ok", POLL_INTERVAL)
          /\ pc' = "login_poll"
          /\ UNCHANGED <<exitKind, getRet, getOut, loginRet>>
       \/ /\ Step("poll_sleep", "KeyboardInterrupt", 0)
          /\ Raise("KeyboardInterrupt", TRUE)
    /\ UNCHANGED <<argVars, tally, sessVars, getReq, resp, getLog, mainVars, gsuVars>>

(***************************************************************************)
(* The guarded request BiliBiliSession.get                                 *)
(***************************************************************************)
\* line 431: the position of the first part with the page number, 0 for
\* the None that next() falls back to
FoundPart(pages_list, n) ==
    IF \E i \in 1..Len(pages_list) : pages_list[i].page = n
    THEN CHOOSE i \in 1..Len(pages_list) :
            /\ pages_list[i].page = n
            /\ \A j \in 1..(i - 1) : pages_list[j].page # n
    ELSE 0

\* lines 428-433: the parts main walks
target_pages_list ==
    IF part = 0 THEN pages ELSE <<pages[FoundPart(pages, part)]>>

\* line 438
is_collection == Len(pages) > 1

\* what the remote may answer to a request that passes raise_for_status: the
\* business code and the part of the JSON body the caller reads.  The nav
\* endpoint sends the key material also to a session that is not logged in;
\* an answer with another error code carries no data.  A subtitle file (any
\* other url) has no "code" key; its code stands as 0, and its body is empty
\* or the one line of the part that is being processed.
Answers(url) ==
    CASE url = "view" ->
           {[code |-> c, body |-> b] : c \in {0}, b \in PagesAnswers} \cup
           {[code |-> c, body |-> NoBody] : c \in BusinessCodes \ {0}}
      [] url = "nav" ->
           {[code |-> c, body |-> [kind |-> "keys", list |-> <<>>]] :
              c \in {0, NOT_LOGGED_IN}} \cup
           {[code |-> c, body |-> NoBody] : c \in BusinessCodes \ {0, NOT_LOGGED_IN}}
      [] url = "player" ->
           {[code |-> c, body |-> b] : c \in {0}, b \in SubtitleAnswers} \cup
           {[code |-> c, body |-> NoBody] : c \in BusinessCodes \ {0}}
      [] OTHER ->
           {[code |-> 0, body |-> [kind |-> "lines", list |-> l]] :
              l \in {<<>>, <<"text of cid " \o ToString(target_pages_list[idx].cid)>>}}

\* IsAuthFailure taking every business error for an expired login
IsAuthFailure_AnyError(data) == data.code # 0

\* line 147: the business code that means "not logged in"
IsAuthFailure(data) == data.code = NOT_LOGGED_IN

\* a call get(url, **kwargs) from the given caller
CallGet(req, caller) ==
    /\ getReq' = req
    /\ getRet' = caller
    /\ resp' = NoResp
    /\ getLog' = <<>>
    /\ getOut' = "none"
    /\ pc' = "get_send"

\* where get returns to
AfterGet(caller) ==
    CASE caller = "info" -> "get_video_info_ret"
      [] caller = "wbi" -> "gsu_sign"
      [] caller = "lookup" -> "gsu_after"
      [] OTHER -> "download_ret"

\* an entry of getLog: a request put on the wire with the business code of
\* its answer (0 when none came), or the call of login_by_qrcode
Sent(ev, code) == [ev |-> ev, req |-> getReq, code |-> code]

\* CaughtByGet with transport errors handled like an expired login
CaughtByGet_Transport(e) == e \in {"BiliAuthError", "RequestException"}

\* line 152: the exceptions the handler of get catches
CaughtByGet(e) == e = "BiliAuthError"

\* the caller has read the response: the locals of the finished call are gone
ClearGet ==
    /\ getReq' = NoReq
    /\ resp' = NoResp
    /\ getLog' = <<>>
    /\ getOut' = "none"

\* get returns r, the answer to its n-th send
ReturnFromGet(r, n) ==
    /\ resp' = [code |-> r.code, body |-> r.body, seq |-> n]
    /\ getOut' = "returned"
    /\ pc' = AfterGet(getRet)
    /\ getRet' = "none"

\* the tally after one more request of the current get call, and after the
\* login it may start; only the requests of get_subtitle_url are counted
Tallied(login) ==
    IF tally.on /\ getRet \in {"wbi", "lookup"}
    THEN [on |-> TRUE,
          sent |-> tally.sent + (IF getRet = "lookup" THEN 1 ELSE 0),
          logins |-> tally.logins + (IF login THEN 1 ELSE 0)]
    ELSE tally

\* get, lines 140-157: the first send, and the call of login_by_qrcode when
\* the answer carries the not-logged-in code
get_send ==
    /\ pc = "get_send"
    /\ \/ \E r \in Answers(getReq.url) :
            /\ Step("send", "ok", r.code)
            /\ IF ~IsAuthFailure(r)
               THEN /\ getLog' = <<Sent("send", r.code)>>
                    /\ ReturnFromGet(r, 1)
                    /\ tally' = Tallied(FALSE)
                    /\ UNCHANGED <<exitKind, loginRet>>
               ELSE \* raise BiliAuthError (line 148)
                    IF CaughtByGet("BiliAuthError")
                    THEN /\ getLog' = <<Sent("send", r.code), Sent("login", 0)>>
                         /\ CallLogin("get")
                         /\ tally' = Tallied(TRUE)
                         /\ UNCHANGED <<exitKind, resp, getOut, getRet>>
                    ELSE /\ getLog' = <<Sent("send", r.code)>>
                         /\ Raise("BiliAuthError", FALSE)
                         /\ tally' = Tallied(FALSE)
                         /\ UNCHANGED resp
       \/ \E e \in Failures :
            /\ Step("send", e, 0)
            /\ IF CaughtByGet(e)
               THEN /\ getLog' = <<Sent("send", 0), Sent("login", 0)>>
                    /\ CallLogin("get")
                    /\ tally' = Tallied(TRUE)
                    /\ UNCHANGED <<exitKind, resp, getOut, getRet>>
               ELSE /\ getLog' = <<Sent("send", 0)>>
                    /\ Raise(e, FALSE)
                    /\ tally' = Tallied(FALSE)
                    /\ UNCHANGED resp
    /\ UNCHANGED <<argVars, sessVars, getReq, mainVars, gsuVars>>

\* get, lines 159-163: after the re-login, send the request again and return
\* its answer
get_resend ==
    /\ pc = "get_resend"
    /\ tally' = Tallied(FALSE)
    /\ \/ \E r \in Answers(getReq.url) :
            /\ Step("resend", "ok", r.code)
            /\ getLog' = Append(getLog, Sent("resend", r.code))
            /\ ReturnFromGet(r, 2)
            /\ UNCHANGED <<exitKind, loginRet>>
       \/ \E e \in Failures :
            /\ Step("resend", e, 0)
            /\ getLog' = Append(getLog, Sent("resend", 0))
            /\ Raise(e, FALSE)
            /\ UNCHANGED resp
    /\ UNCHANGED <<argVars, sessVars, getReq, mainVars, gsuVars>>

(***************************************************************************)
(* get_video_info                                                          *)
(***************************************************************************)
\* PagesList synthesizing the part also for a declared list of one part
PagesList_AtMostOne(view) ==
    IF view.kind # "list" \/ Len(view.list) <= 1
    THEN <<[cid |-> Item.cid, page |-> 1, part |-> Item.title]>>
    ELSE view.list

\* lines 184-193: view_data.get("pages", []) and the synthesized single part
PagesList(view) ==
    IF view.kind # "list" \/ Len(view.list) = 0
    THEN <<[cid |-> Item.cid, page |-> 1, part |-> Item.title]>>
    ELSE view.list

\* main line 424 -> get_video_info lines 174-175: request the metadata
get_video_info ==
    /\ pc = "get_video_info"
    /\ CallGet([url |-> "view", params |-> <<>>], "info")
    /\ Step("call", "view", 0)
    /\ UNCHANGED <<exitKind, argVars, tally, sessVars, loginRet, mainVars, gsuVars>>

\* get_video_info lines 176-195, then main lines 427-458: the part list, and
\* the end of the run when the part asked for with --part is not in it
get_video_info_ret ==
    /\ pc = "get_video_info_ret"
    /\ IF resp.code # 0
       THEN \* RuntimeError (line 179)
            /\ Step("info", "RuntimeError", resp.code)
            /\ pc' = "done"
            /\ exitKind' = Handler("RuntimeError", FALSE).exit
            /\ UNCHANGED <<pages, idx>>
       ELSE /\ pages' = PagesList(resp.body)
            /\ IF part # 0 /\ FoundPart(PagesList(resp.body), part) = 0
               THEN \* return at line 436
                    /\ Step("info", "no_such_part", part)
                    /\ pc' = "done"
                    /\ exitKind' = "no_such_part"
                    /\ UNCHANGED idx
               ELSE /\ Step("info", "ok", 0)
                    /\ idx' = 1
                    /\ pc' = "process_video_part"
                    /\ UNCHANGED exitKind
    /\ UNCHANGED <<argVars, tally, sessVars, loginRet, getVars, outVars, gsuVars>>

(***************************************************************************)
(* get_subtitle_url                                                        *)
(***************************************************************************)
\* lines 333-335: the loop returning the first descriptor with a url
FirstWithUrl(subs) ==
    IF \E i \in 1..Len(subs) : ~Falsy(subs[i].subtitle_url)
    THEN LET first == CHOOSE i \in 1..Len(subs) :
                        /\ ~Falsy(subs[i].subtitle_url)
                        /\ \A j \in 1..(i - 1) : Falsy(subs[j].subtitle_url)
         IN  "https:" \o subs[first].subtitle_url
    ELSE None

\* lines 329-331: the loop returning the first descriptor with the language
\* and a url
FirstInLanguage(subs, l) ==
    LET Wanted(sub) == sub.lan = l /\ ~Falsy(sub.subtitle_url)
    IN  IF \E i \in 1..Len(subs) : Wanted(subs[i])
        THEN LET first == CHOOSE i \in 1..Len(subs) :
                            Wanted(subs[i]) /\ \A j \in 1..(i - 1) : ~Wanted(subs[j])
             IN  "https:" \o subs[first].subtitle_url
        ELSE None

\* SelectSubtitle without the language pass
SelectSubtitle_First(subs, l) == FirstWithUrl(subs)

\* lines 327-335: the url returned for a descriptor list, None when the
\* attempt yields nothing
SelectSubtitle(subs, l) ==
    LET byLan == IF Falsy(l) THEN None ELSE FirstInLanguage(subs, l)
    IN  IF byLan # None THEN byLan ELSE FirstWithUrl(subs)

\* IsRejected looking for the not-logged-in code only
IsRejected_AuthOnly(data) == data.code = NOT_LOGGED_IN

\* line 321: a business code that ends the lookup
IsRejected(data) == data.code # 0

\* the return of get_subtitle_url to process_video_part
ReturnFromGsu(url, list) ==
    /\ result' = [url |-> url, list |-> list, set |-> TRUE]
    /\ pc' = "pvp_after"

\* NextAttempt with a loop of retries + 1 iterations
NextAttempt_OneMore ==
    IF attempt <= retries
    THEN attempt' = attempt + 1 /\ pc' = "gsu_attempt" /\ UNCHANGED result
    ELSE attempt' = attempt /\ ReturnFromGsu(None, <<>>)

\* lines 315 and 344: the next loop iteration, or the return after the last
NextAttempt ==
    IF attempt < retries
    THEN attempt' = attempt + 1 /\ pc' = "gsu_attempt" /\ UNCHANGED result
    ELSE attempt' = attempt /\ ReturnFromGsu(None, <<>>)

\* process_video_part lines 220-228 -> get_subtitle_url line 303 ->
\* get_wbi_keys line 292: request the key material
process_video_part ==
    /\ pc = "process_video_part"
    /\ CallGet([url |-> "nav", params |-> <<>>], "wbi")
    /\ Step("call", "nav", 0)
    /\ params' = <<>>
    /\ attempt' = 0
    /\ sleeps' = <<>>
    /\ result' = NoResult
    /\ tally' = [tally EXCEPT !.sent = 0, !.logins = 0]
    /\ UNCHANGED <<exitKind, argVars, sessVars, loginRet, mainVars>>

\* lines 295-296: the two key fragments the nav endpoint serves, 32
\* characters each
wbi_img ==
    [img_key |-> SubSeq(Alphabet, 1, 32), sub_key |-> SubSeq(Alphabet, 33, 64)]

\* int(time.time()) where the call stands: the clock has moved on by the
\* sleeps the call has taken
Now == 1700000000 + delay * Len(sleeps)

\* lines 306-311
base_params(aid, cid) ==
    <<[k |-> "aid", v |-> IntVal(aid)],
      [k |-> "cid", v |-> IntVal(cid)],
      [k |-> "isGaiaAvoided", v |-> StrVal(<<"f", "a", "l", "s", "e">>)],
      [k |-> "web_location", v |-> StrVal(<<"1", "3", "1", "5", "8", "7", "3">>)]>>

\* lines 304-312: the key derived and the parameters signed, now
SignedParams ==
    encode_params(base_params(Item.aid, target_pages_list[idx].cid),
                  get_mixin_key(wbi_img.img_key, wbi_img.sub_key).val, Now)

\* get_wbi_keys lines 293-297, get_subtitle_url lines 304-315: read the key
\* material, derive the key, sign the parameters once, enter the loop
gsu_sign ==
    /\ pc = "gsu_sign"
    /\ IF resp.body.kind # "keys"
       THEN \* KeyError at line 294, caught by main
            /\ Step("sign", "KeyError", resp.code)
            /\ Raise("KeyError", FALSE)
            /\ UNCHANGED <<getReq, resp, getLog, params, attempt>>
       ELSE /\ Step("sign", "ok", resp.code)
            /\ params' = SignedParams
            /\ attempt' = 1
            /\ pc' = "gsu_attempt"
            /\ ClearGet
            /\ UNCHANGED <<exitKind, getRet, loginRet>>
    /\ UNCHANGED <<argVars, tally, sessVars, mainVars, sleeps, result>>

\* AttemptParams signing afresh for every attempt
AttemptParams_Resigned == SignedParams

\* line 317: params=params, the dict signed before the loop
AttemptParams == params

\* line 317: the signed lookup request of one attempt
gsu_attempt ==
    /\ pc = "gsu_attempt"
    /\ CallGet([url |-> "player", params |-> AttemptParams], "lookup")
    /\ Step("call", "player", attempt)
    /\ UNCHANGED <<exitKind, argVars, tally, sessVars, loginRet, mainVars, gsuVars>>

\* lines 318-337: what one attempt does with the answer
gsu_after ==
    /\ pc = "gsu_after"
    /\ IF IsRejected(resp)
       THEN /\ Step("lookup", "rejected", resp.code)
            /\ ReturnFromGsu(None, <<>>)
       ELSE LET subtitles == resp.body.list
                url == SelectSubtitle(subtitles, lan)
            IN  IF url # None
                THEN /\ Step("lookup", "selected", resp.code)
                     /\ ReturnFromGsu(url, subtitles)
                ELSE /\ Step("lookup", "empty", resp.code)
                     /\ pc' = "gsu_sleep"
                     /\ UNCHANGED result
    /\ UNCHANGED <<exitKind, argVars, tally, sessVars, loginRet, getVars, mainVars,
                   params, attempt, sleeps>>

\* line 338: time.sleep(delay) after an attempt that yielded nothing
gsu_sleep ==
    /\ pc = "gsu_sleep"
    /\ \/ /\ Step("retry_sleep", "ok", delay)
          /\ sleeps' = Append(sleeps, "empty")
          /\ NextAttempt
          /\ ClearGet
          /\ UNCHANGED <<exitKind, getRet, loginRet>>
       \/ /\ Step("retry_sleep", "KeyboardInterrupt", 0)
          /\ Raise("KeyboardInterrupt", FALSE)
          /\ UNCHANGED <<attempt, sleeps, result, getReq, resp, getLog>>
    /\ UNCHANGED <<argVars, tally, sessVars, mainVars, params>>

\* lines 340-342: RequestException caught inside the loop, then
\* time.sleep(delay)
gsu_except ==
    /\ pc = "gsu_except"
    /\ \/ /\ Step("except_sleep", "ok", delay)
          /\ sleeps' = Append(sleeps, "except")
          /\ NextAttempt
          /\ ClearGet
          /\ UNCHANGED <<exitKind, getRet, loginRet>>
       \/ /\ Step("except_sleep", "KeyboardInterrupt", 0)
          /\ Raise("KeyboardInterrupt", FALSE)
          /\ UNCHANGED <<attempt, sleeps, result, getReq, resp, getLog>>
    /\ UNCHANGED <<argVars, tally, sessVars, mainVars, params>>

(***************************************************************************)
(* process_video_part and the loop of main                                 *)
(***************************************************************************)
\* line 470: the divider put before the lines of a part
Separator(page_info) ==
    "\n\n--- P" \o ToString(page_info.page) \o " " \o page_info.part \o " ---\n\n"

\* Aggregated putting the divider also before the first lines
Aggregated_AlwaysDivider(lines, page_info, returned_lines) ==
    IF returned_lines # <<>>
    THEN Append(lines, Separator(page_info)) \o returned_lines
    ELSE lines

\* main lines 466-473: all_subtitle_lines after a part returned
Aggregated(lines, page_info, returned_lines) ==
    IF returned_lines # <<>>
    THEN (IF lines # <<>> THEN Append(lines, Separator(page_info)) ELSE lines)
            \o returned_lines
    ELSE lines

\* line 483: "".join(all_subtitle_lines)
Joined(lines) ==
    LET upto[i \in 0..Len(lines)] ==
            IF i = 0 THEN "" ELSE upto[i - 1] \o lines[i]
    IN  upto[Len(lines)]

\* process_video_part lines 230-251: no url ends the part with None, a url
\* is downloaded (the descriptor list is only printed, lines 234-238).  The
\* files written per part are not part of the model.
pvp_after ==
    /\ pc = "pvp_after"
    /\ IF Falsy(result.url)
       THEN /\ Step("part", "no_subtitle", idx)
            /\ pc' = "main_pause"
            /\ visits' = Append(visits, "none")
            /\ ClearGet
            /\ UNCHANGED getRet
       ELSE /\ Step("call", "download", idx)
            /\ CallGet([url |-> result.url, params |-> <<>>], "download")
            /\ UNCHANGED visits
    /\ result' = NoResult
    /\ params' = <<>>
    /\ UNCHANGED <<exitKind, argVars, tally, sessVars, loginRet, pages, idx,
                   all_subtitle_lines, merged, attempt, sleeps>>

\* download_subtitle lines 384-389, process_video_part lines 253-262, main
\* lines 466-473: the lines of the part join those to merge
download_ret ==
    /\ pc = "download_ret"
    /\ Step("part", "lines", idx)
    /\ pc' = "main_pause"
    /\ all_subtitle_lines' =
          Aggregated(all_subtitle_lines, target_pages_list[idx], resp.body.list)
    /\ visits' = Append(visits, IF resp.body.list # <<>> THEN "text" ELSE "none")
    /\ ClearGet
    /\ UNCHANGED <<exitKind, argVars, tally, sessVars, loginRet, getRet, pages,
                   idx, merged, gsuVars>>

\* main line 475: time.sleep(1), then the next part, or lines 478-486 and the
\* end of the run
main_pause ==
    /\ pc = "main_pause"
    /\ \/ /\ Step("pause", "ok", PART_PAUSE)
          /\ IF idx < Len(target_pages_list)
             THEN /\ idx' = idx + 1
                  /\ pc' = "process_video_part"
                  /\ UNCHANGED <<exitKind, merged>>
             ELSE /\ idx' = idx
                  /\ pc' = "done"
                  /\ exitKind' = "normal"
                  /\ merged' =
                        IF merge /\ is_collection /\ part = 0
                              /\ all_subtitle_lines # <<>>
                        THEN [written |-> TRUE, text |-> Joined(all_subtitle_lines)]
                        ELSE merged
          /\ UNCHANGED <<getOut, getRet, loginRet>>
       \/ /\ Step("pause", "KeyboardInterrupt", 0)
          /\ Raise("KeyboardInterrupt", FALSE)
          /\ UNCHANGED <<idx, merged>>
    /\ UNCHANGED <<argVars, tally, sessVars, getReq, resp, getLog, pages,
                   all_subtitle_lines, visits, gsuVars>>

Next ==
    \/ load_cookie
    \/ check_login_status
    \/ login_generate
    \/ login_poll
    \/ login_sleep
    \/ get_send
    \/ get_resend
    \/ get_video_info
    \/ get_video_info_ret
    \/ process_video_part
    \/ gsu_sign
    \/ gsu_attempt
    \/ gsu_after
    \/ gsu_sleep
    \/ gsu_except
    \/ pvp_after
    \/ download_ret
    \/ main_pause

Spec == Init /\ [][Next]_vars

(***************************************************************************)
(* Runs with --merge and --part, from a cookie.json that holds a bundle    *)
(***************************************************************************)
StoredBundle ==
    [state |-> "ok", SESSDATA |-> "s0", bili_jct |-> "c0",
     DedeUserID |-> "u0", extra |-> None]

\* main lines 409-418: any --merge, any --part up to one past the longest
\* part list
InitWalk ==
    /\ Boot
    /\ pc = "load_cookie"
    /\ lan = None
    /\ merge \in BOOLEAN
    /\ part \in 0..(MaxParts + 1)
    /\ fn = NoCall
    /\ store = StoredBundle
    /\ tally = NoTally

SpecWalk == InitWalk /\ [][Next]_vars

\* a run on the first part, with the requests and logins of each
\* get_subtitle_url call tallied
InitBudget ==
    /\ Boot
    /\ pc = "load_cookie"
    /\ lan = None
    /\ merge = FALSE
    /\ part = 1
    /\ fn = NoCall
    /\ store = StoredBundle
    /\ tally = [on |-> TRUE, sent |-> 0, logins |-> 0]

SpecBudget == InitBudget /\ [][Next]_vars

(***************************************************************************)
(* encode_params and get_mixin_key, each called once on arguments drawn    *)
(* from a bounded set                                                      *)
(***************************************************************************)
progVars == <<exitKind, lan, merge, part, sessVars, loginRet, getVars, last,
              mainVars, gsuVars, tally>>

\* a process that only calls the function named by pc
Idle ==
    /\ Boot
    /\ lan = None
    /\ merge = FALSE
    /\ part = 0
    /\ store = NoStore("absent")
    /\ tally = NoTally

\* the str values of the dicts to sign: a letter, a blank and the five
\* characters encode_params takes out
SignChars == {"a", " ", "!", "'", "(", ")", "*"}
SignStrings == SeqsUpTo(SignChars, MaxChars)

\* the items of a dict to sign: an int, a str, and possibly the two keys
\* encode_params writes itself
SignItems(str, wts, w_rid) ==
    {[k |-> "aid", v |-> IntVal(Item.aid)],
     [k |-> "isGaiaAvoided", v |-> StrVal(str)]}
    \cup (IF wts = "int" THEN {[k |-> "wts", v |-> IntVal(5)]}
          ELSE IF wts = "str" THEN {[k |-> "wts", v |-> StrVal(<<"(", "9">>)]}
          ELSE {})
    \cup (IF w_rid THEN {[k |-> "w_rid", v |-> StrVal(<<"*", "a">>)]} ELSE {})

\* the dicts with the given items, in every insertion order
DictsOf(items) ==
    {d \in [1..Cardinality(items) -> items] :
        \A i, j \in 1..Cardinality(items) : (i # j) => (d[i] # d[j])}

SignDicts ==
    UNION {DictsOf(SignItems(str, wts, w_rid)) :
             str \in SignStrings, wts \in {"no", "int", "str"}, w_rid \in BOOLEAN}

InitSign ==
    /\ Idle
    /\ pc = "encode_params"
    /\ \E d \in SignDicts, now \in {1700000000, 1700000001} :
          fn = [name |-> "encode_params",
                args |-> [params |-> d,
                          mixin_key |-> get_mixin_key(wbi_img.img_key,
                                                      wbi_img.sub_key).val,
                          now |-> now],
                obj |-> d,
                out |-> <<>>]

\* one call of encode_params: the dict it returns, and the caller's dict,
\* which lines 278-283 change in place
call_encode_params ==
    /\ pc = "encode_params"
    /\ fn' = [fn EXCEPT
                !.obj = CleanedInPlace(fn.args.params, fn.args.now),
                !.out = encode_params(fn.args.params, fn.args.mixin_key,
                                      fn.args.now)]
    /\ pc' = "returned"
    /\ UNCHANGED progVars

NextSign == call_encode_params

SpecSign == InitSign /\ [][NextSign]_vars

\* the strs to split into two key fragments: Alphabet from some character
\* on, as long as asked
KeyString(shift, len) ==
    [i \in 1..len |-> Alphabet[((i - 1 + shift) % Len(Alphabet)) + 1]]

InitMixin ==
    /\ Idle
    /\ pc = "get_mixin_key"
    /\ \E len \in 63..MaxKeyLen, shift \in 0..2 :
          \E cut \in 0..len :
             LET s == KeyString(shift, len) IN
             fn = [name |-> "get_mixin_key",
                   args |-> [img_key |-> SubSeq(s, 1, cut),
                             sub_key |-> SubSeq(s, cut + 1, len)],
                   obj |-> <<>>,
                   out |-> [exc |-> None, val |-> <<>>]]

\* one call of get_mixin_key
call_get_mixin_key ==
    /\ pc = "get_mixin_key"
    /\ fn' = [fn EXCEPT !.out = get_mixin_key(fn.args.img_key, fn.args.sub_key)]
    /\ pc' = "returned"
    /\ UNCHANGED progVars

NextMixin == call_get_mixin_key

SpecMixin == InitMixin /\ [][NextMixin]_vars

(***************************************************************************)
(* Properties                                                              *)
(***************************************************************************)
LoginPcs == {"login_generate", "login_poll", "login_sleep"}
Events(log) == [i \in 1..Len(log) |-> log[i].ev]
Answered(op) == last.op = op /\ last.out = "ok"

\* C1: a guarded get whose first answer carries the not-logged-in code -101
\* calls login_by_qrcode once, and when the answer to the request sent again
\* does not carry the code it returns that second answer, having sent the
\* same url and options twice, in the order send, login, resend; a first
\* answer without the code is returned with no login and no resend.
C1_OneReloginOneResend ==
    /\ (Answered("send") /\ last.code # -101) =>
          /\ getOut = "returned"
          /\ resp.seq = 1 /\ resp.code = last.code
          /\ Events(getLog) = <<"send">>
          /\ pc \notin LoginPcs \cup {"get_resend"}
    /\ (Answered("send") /\ last.code = -101) =>
          /\ pc = "login_generate" /\ loginRet = "get"
          /\ Events(getLog) = <<"send", "login">>
    /\ (pc \in LoginPcs \cup {"get_resend"} /\ loginRet = "get") =>
          Events(getLog) = <<"send", "login">>
    /\ (Answered("resend") /\ last.code # -101) =>
          /\ getOut = "returned"
          /\ resp.seq = 2 /\ resp.code = last.code
          /\ Events(getLog) = <<"send", "login", "resend">>
          /\ getLog[1].code = -101
          /\ getLog[1].req = getReq /\ getLog[3].req = getReq

\* a get that answered -101 first has logged in, sent again and returned
C1_Witness ==
    /\ Answered("resend") /\ last.code = 0
    /\ getOut = "returned" /\ resp.seq = 2
    /\ Len(getLog) = 3 /\ getLog[1].code = -101
    /\ getReq.url = "player"

\* C2: when the request sent again after the re-login carries the
\* not-logged-in code -101 once more, get neither logs in nor sends a further
\* time, and ends by raising instead of returning the response.
C2_SecondFailureRaises ==
    (Answered("resend") /\ last.code = -101) =>
        /\ Events(getLog) = <<"send", "login", "resend">>
        /\ getOut = "raised"

\* C3: load_cookie with no cookie.json, or with one whose SESSDATA or
\* bili_jct is missing or empty, goes on to login_by_qrcode without ending
\* the run, and the liveness probe only ever runs on a bundle with both
\* fields present and non-empty.
C3_IncompleteBundleLogsIn ==
    LET incomplete ==
            \/ store.state = "absent"
            \/ /\ store.state = "ok"
               /\ \/ store.SESSDATA \in {None, ""}
                  \/ store.bili_jct \in {None, ""}
    IN  /\ (last.op = "load" /\ incomplete) =>
              /\ pc = "login_generate" /\ loginRet = "load"
              /\ exitKind = "running"
              /\ jar = EmptyJar
        /\ (pc = "check_login_status" \/ last.op = "probe") =>
              /\ ~incomplete
              /\ jar["SESSDATA"] \notin {None, ""}
              /\ jar["bili_jct"] \notin {None, ""}

\* a store holding a session token but no cross-site token led to the login
C3_Witness ==
    /\ last.op = "load"
    /\ store.state = "ok" /\ store.SESSDATA = "s0" /\ store.bili_jct = None
    /\ pc = "login_generate"

\* C4: a transport or HTTP-status error on a request of get leaves get by
\* raising to get's caller; the step starts no login, sends nothing again
\* and leaves cookie.json and the session's cookies as they were.
C4_TransportErrorPropagates ==
    [][(pc \in {"get_send", "get_resend"} /\ last'.out = "RequestException") =>
          /\ store' = store /\ jar' = jar /\ csrf' = csrf
          /\ getOut' = "raised"
          /\ pc' = (IF getRet = "lookup" THEN "gsu_except" ELSE "done")
          /\ (pc' = "done") => (exitKind' = "error")
          /\ Len(getLog') = Len(getLog) + 1
          /\ getLog'[Len(getLog')].ev = (IF pc = "get_send" THEN "send" ELSE "resend")
          /\ (pc = "get_send") => (Events(getLog') = <<"send">>)]_vars

\* the first send of a lookup failed and the error reached get_subtitle_url
C4_Witness ==
    /\ last.op = "send" /\ last.out = "RequestException"
    /\ getOut = "raised" /\ pc = "gsu_except"
    /\ Events(getLog) = <<"send">>

\* C5 as stated: the poll loop of login_by_qrcode is left only after status
\* 0, status 86038 or an operator interrupt.
C5_LoopEndsOnThreeEvents ==
    (last.op \in {"poll", "poll_sleep"} /\ pc \notin {"login_poll", "login_sleep"}) =>
        \/ Answered("poll") /\ last.code \in {0, 86038}
        \/ last.out = "KeyboardInterrupt"

\* C5 (amended): the poll loop of login_by_qrcode is left only after status
\* 0, status 86038, an operator interrupt, or an exception raised by the
\* poll request, which leaves login_by_qrcode without a normal return.
\* login_by_qrcode returns to its caller only after status 0, with the
\* session's three cookies written to cookie.json; after 86038 or an
\* interrupt the process has ended; any other status is followed by a
\* 2-second sleep and then another poll.
C5_PollLoop ==
    /\ (last.op \in {"poll", "poll_sleep"} /\ pc \notin {"login_poll", "login_sleep"}) =>
          \/ Answered("poll") /\ last.code \in {0, 86038}
          \/ last.out = "KeyboardInterrupt"
          \/ last.op = "poll" /\ last.out = "RequestException"
    /\ (last.op \in {"poll", "poll_sleep"} /\ pc \in {"get_resend", "get_video_info"}) =>
          /\ Answered("poll") /\ last.code = 0
          /\ store.state = "ok"
          /\ \A k \in CookieNames : store[k] = jar[k]
          /\ csrf = jar["bili_jct"]
    /\ (Answered("poll") /\ last.code = 0) => pc \in {"get_resend", "get_video_info"}
    /\ (Answered("poll") /\ last.code = 86038) =>
          pc = "done" /\ exitKind = "login_expired"
    /\ (last.op \in {"poll", "poll_sleep"} /\ last.out = "KeyboardInterrupt") =>
          pc = "done" /\ exitKind = "login_cancel"
    /\ (last.op = "poll" /\ last.out = "RequestException") =>
          pc \in {"gsu_except", "done"} /\ exitKind \in {"running", "error"}
    /\ (Answered("poll") /\ last.code \notin {0, 86038}) => pc = "login_sleep"
    /\ Answered("poll_sleep") => (pc = "login_poll" /\ last.code = 2)
    /\ (pc = "login_sleep") => (Answered("poll") /\ last.code \notin {0, 86038})
    /\ (pc = "done") => ~ENABLED Next

\* a re-login inside get succeeded after a sleep and returned to the resend
C5_Witness ==
    /\ Answered("poll") /\ last.code = 0
    /\ pc = "get_resend"
    /\ store.state = "ok" /\ store.SESSDATA = "s1"

\* C6: cookie.json changes only in the step of a successful poll of
\* login_by_qrcode, and every such step replaces it by exactly the
\* session's SESSDATA, bili_jct and DedeUserID, keeping nothing else of the
\* file.
C6_StoreWrittenByLoginOnly ==
    [][/\ (store' # store) =>
             (pc = "login_poll" /\ last'.op = "poll" /\ last'.out = "ok" /\ last'.code = 0)
       /\ (pc = "login_poll" /\ last'.op = "poll" /\ last'.out = "ok" /\ last'.code = 0) =>
             store' = [state |-> "ok", SESSDATA |-> jar'["SESSDATA"],
                       bili_jct |-> jar'["bili_jct"],
                       DedeUserID |-> jar'["DedeUserID"], extra |-> None]]_vars

\* a login rewrote the store with the three fresh cookies
C6_Witness ==
    /\ Answered("poll") /\ last.code = 0
    /\ store = [state |-> "ok", SESSDATA |-> "s1", bili_jct |-> "c1",
                DedeUserID |-> "u1", extra |-> None]

\* C7: an attempt of get_subtitle_url whose answer carries a non-zero
\* business code returns (None, []) at once: the attempt counter stays, and
\* the sleeps taken are those of the earlier attempts only.
C7_RejectionReturnsAtOnce ==
    (last.op = "lookup" /\ resp.code # 0) =>
        /\ pc = "pvp_after"
        /\ result.set /\ result.url = None /\ result.list = <<>>
        /\ Len(sleeps) = attempt - 1

\* the second attempt was rejected after one retry sleep
C7_Witness ==
    /\ last.op = "lookup" /\ resp.code = -400
    /\ attempt = 2 /\ Len(sleeps) = 1
    /\ pc = "pvp_after" /\ result.set

LeastOf(S) == CHOOSE i \in S : \A j \in S : i <= j
\* the positions of the descriptors with a resource url, and of those that
\* also carry the preferred language
WithUrl(list) == {i \in 1..Len(list) : list[i].subtitle_url \notin {None, ""}}
Preferred(list) ==
    IF lan \in {None, ""} THEN {} ELSE {i \in WithUrl(list) : list[i].lan = lan}

\* C8 as stated: when a descriptor with the preferred language and a url
\* exists the returned url is that descriptor's url, otherwise that of the
\* first descriptor with a url.
C8_ReturnsDescriptorUrl ==
    (last.op = "lookup" /\ resp.code = 0 /\ WithUrl(resp.body.list) # {}) =>
        LET list == resp.body.list
        IN  IF Preferred(list) # {}
            THEN \E i \in Preferred(list) : result.url = list[i].subtitle_url
            ELSE result.url = list[LeastOf(WithUrl(list))].subtitle_url

\* C8 (amended): for an answer with business code zero, the returned url is
\* "https:" followed by the url of the first descriptor that has the
\* preferred language and a non-empty url, when a language is given and such
\* a descriptor exists, and otherwise of the first descriptor with a
\* non-empty url; the whole list is returned with it.  When no descriptor
\* has a url nothing is returned and the attempt goes to the retry sleep.
C8_Selection ==
    (last.op = "lookup" /\ resp.code = 0) =>
        LET list == resp.body.list
        IN  IF Preferred(list) # {}
            THEN /\ pc = "pvp_after"
                 /\ result.url = "https:" \o list[LeastOf(Preferred(list))].subtitle_url
                 /\ result.list = list
            ELSE IF WithUrl(list) # {}
            THEN /\ pc = "pvp_after"
                 /\ result.url = "https:" \o list[LeastOf(WithUrl(list))].subtitle_url
                 /\ result.list = list
            ELSE pc = "gsu_sleep" /\ ~result.set

\* the preferred language was selected although another url came first
C8_Witness ==
    /\ last.op = "lookup" /\ resp.code = 0 /\ lan = "ai-zh"
    /\ Len(resp.body.list) = 2
    /\ resp.body.list[1] = [lan |-> "en", subtitle_url |-> "//a"]
    /\ resp.body.list[2] = [lan |-> "ai-zh", subtitle_url |-> "//b"]
    /\ result.url = "https://b"

\* C9: when every attempt of get_subtitle_url is answered with code zero
\* and no usable descriptor, the call returns (None, []) after exactly
\* `retries` attempts and exactly `retries` - 1 sleeps, none after the last
\* attempt.
C9_NoSleepAfterLastAttempt ==
    (/\ pc = "pvp_after" /\ last.op = "retry_sleep"
     /\ \A i \in 1..Len(sleeps) : sleeps[i] = "empty") =>
        /\ attempt = retries
        /\ result.set /\ result.url = None /\ result.list = <<>>
        /\ Len(sleeps) = retries - 1

\* C10: get_video_info gives, for metadata without declared parts, the one
\* part (cid of the item, page 1, title of the item), and for metadata with
\* declared parts the declared list as it came.
C10_SinglePartSynthesized ==
    (last.op = "info" /\ last.out = "ok") =>
        LET view == resp.body
        IN  IF view.kind \in {"missing", "null"} \/ view.list = <<>>
            THEN pages = <<[cid |-> Item.cid, page |-> 1, part |-> Item.title]>>
            ELSE pages = view.list

\* an empty declared list gave the synthesized part
C10_Witness ==
    /\ last.op = "info" /\ last.out = "ok"
    /\ resp.body.kind = "list" /\ resp.body.list = <<>>
    /\ Len(pages) = 1 /\ pages[1].page = 1 /\ pages[1].part = "T"

\* the positions of the visited parts that returned lines, and the n-th of them
Included(v) == {i \in 1..Len(v) : v[i] = "text"}
NthOf(S, n) == CHOOSE i \in S : Cardinality({j \in S : j < i}) = n - 1
\* the lines to merge for a walk with the given visits: the line of every
\* included part, with the divider of the later part between two of them
ExpectedLines(v) ==
    LET n == Cardinality(Included(v))
        line(i) == "text of cid " \o ToString(target_pages_list[i].cid)
        divider(i) ==
            "\n\n--- P" \o ToString(target_pages_list[i].page) \o " "
                \o target_pages_list[i].part \o " ---\n\n"
    IN  [k \in 1..(IF n = 0 THEN 0 ELSE 2 * n - 1) |->
            IF k % 2 = 1
            THEN line(NthOf(Included(v), (k + 1) \div 2))
            ELSE divider(NthOf(Included(v), (k \div 2) + 1))]
Concatenated(lines) ==
    LET upto[i \in 0..Len(lines)] ==
            IF i = 0 THEN "" ELSE upto[i - 1] \o lines[i]
    IN  upto[Len(lines)]

C12_FailureExitsNonZero ==
    /\ (pc = "done" /\ exitKind = "error") => (ExitStatus(exitKind) # 0)
    /\ (pc = "done" /\ exitKind = "normal") => (ExitStatus(exitKind) = 0)

\* C13: an operator interrupt at a request or a sleep ends the process in
\* that step, through exit() after "用户取消登录" when it comes inside the
\* poll loop of login_by_qrcode and through main's handler otherwise; the
\* run never ends on an exception nobody catches, and an ended process takes
\* no further step.
C13_InterruptEndsRun ==
    /\ (last.out = "KeyboardInterrupt") =>
          /\ pc = "done"
          /\ exitKind = (IF last.op \in {"poll", "poll_sleep"}
                         THEN "login_cancel" ELSE "interrupt")
          /\ ~ENABLED Next
    /\ exitKind # "uncaught"

\* the retry sleep of get_subtitle_url was interrupted during the second
\* part, after a re-login
C13_Witness ==
    /\ last.op = "retry_sleep" /\ last.out = "KeyboardInterrupt"
    /\ pc = "done" /\ exitKind = "interrupt"
    /\ idx = 2 /\ store.SESSDATA = "s1"

\* the value a dict holds for a key
ValueOf(d, k) == d[CHOOSE i \in 1..Len(d) : d[i].k = k].v
\* a value with the five characters taken out when it is a str
Stripped(val) ==
    LET kept(c) == c \notin {"!", "'", "(", ")", "*"}
    IN  IF val.t = "str" THEN [t |-> "str", v |-> SelectSeq(val.v, kept)] ELSE val
\* the query string of the given keys of d in ascending key order, every
\* value stripped, the blank quoted as "+", wts being the timestamp
ExpectedQuery(d, now, keys) ==
    LET order == <<"aid", "cid", "isGaiaAvoided", "w_rid", "web_location", "wts">>
        chars(k) == IF k = "wts" THEN <<ToString(now)>> ELSE Stripped(ValueOf(d, k)).v
        piece(k) ==
            k \o "=" \o
            Concatenated([j \in 1..Len(chars(k)) |->
                            IF chars(k)[j] = " " THEN "+" ELSE chars(k)[j]])
        upto[i \in 0..Len(order)] ==
            IF i = 0 THEN ""
            ELSE IF order[i] \notin keys THEN upto[i - 1]
            ELSE IF upto[i - 1] = "" THEN piece(order[i])
            ELSE upto[i - 1] \o "&" \o piece(order[i])
    IN  upto[Len(order)]
ExpectedDigest(d, now, keys, mixin_key) ==
    [t |-> "str",
     v |-> <<"md5(" \o ExpectedQuery(d, now, keys) \o Concatenated(mixin_key) \o ")">>]

C15_MixinKey ==
    (pc = "returned" /\ fn.name = "get_mixin_key") =>
        LET s == fn.args.img_key \o fn.args.sub_key
        IN  /\ Len(table) = 64
            /\ \A i \in 1..64 : table[i] \in 0..63
            /\ \A i, j \in 1..64 : (i # j) => (table[i] # table[j])
            /\ (Len(s) >= 64) =>
                  /\ fn.out.exc = None
                  /\ Len(fn.out.val) = 32
                  /\ \A k \in 1..32 : fn.out.val[k] = s[table[k] + 1]

\* the key of two fragments of 32 characters each, "0".."v" and "w".."_"
C15_Witness ==
    /\ pc = "returned" /\ fn.name = "get_mixin_key"
    /\ Len(fn.args.img_key) = 32 /\ Len(fn.args.sub_key) = 32
    /\ fn.args.img_key[1] = "0"
    /\ fn.out.val =
          <<"K", "L", "i", "2", "R", "8", "n", "w", "f", "O", "a", "v", "W", "3",
            "J", "z", "r", "H", "5", "N", "x", "9", "G", "j", "t", "s", "e", "D",
            "c", "C", "F", "d">>

\* C16: a transport error on the request of the liveness probe does not
\* start login_by_qrcode.
C16_ProbeErrorStartsNoLogin ==
    (last.op = "probe" /\ last.out = "RequestException") => (pc \notin LoginPcs)

\* C17 as stated: a transport error on the lookup request of an attempt
\* leaves get_subtitle_url and reaches its caller's handler.
C17_TransportErrorLeavesLoop ==
    (/\ last.op \in {"send", "resend"} /\ last.out = "RequestException"
     /\ getReq.url = "player") =>
        (pc = "done" /\ exitKind = "error")

\* C17 (amended): a transport error on the lookup request of an attempt is
\* caught inside get_subtitle_url; nothing is returned or raised, the loop
\* sleeps `delay` seconds and goes on with the next attempt, and after the
\* last attempt the call returns (None, []).
C17_TransportErrorRetried ==
    /\ (/\ last.op \in {"send", "resend"} /\ last.out = "RequestException"
        /\ getReq.url = "player") =>
          /\ pc = "gsu_except" /\ exitKind = "running"
          /\ ~result.set
          /\ Len(sleeps) = attempt - 1
    /\ Answered("except_sleep") =>
          /\ last.code = 2
          /\ sleeps[Len(sleeps)] = "except"
          /\ IF Len(sleeps) < 3
             THEN pc = "gsu_attempt" /\ attempt = Len(sleeps) + 1 /\ ~result.set
             ELSE /\ pc = "pvp_after" /\ attempt = 3
                  /\ result = [url |-> None, list |-> <<>>, set |-> TRUE]

\* the first lookup request failed, and after the sleep the second attempt
\* is about to be made
C17_Witness ==
    /\ Answered("except_sleep")
    /\ pc = "gsu_attempt" /\ attempt = 2 /\ sleeps = <<"except">>

\* C18: in a get_subtitle_url call the key material is requested and the
\* parameters are signed once, before the first attempt and before any
\* sleep; the signed dict then stays as it is, its wts being the time of
\* that signing however many sleeps have passed; and every lookup request of
\* the call, first sends and resends alike, carries exactly that dict.
C18_SignedOnce ==
    /\ (last.op = "sign" /\ last.out = "ok") =>
          /\ pc = "gsu_attempt" /\ attempt = 1 /\ sleeps = <<>>
          /\ params # <<>>
    /\ (getReq.url = "nav" /\ idx >= 1) => (attempt = 0 /\ params = <<>>)
    /\ (attempt = 0) => (params = <<>>)
    /\ (params # <<>>) =>
          /\ {"wts", "w_rid"} \subseteq Keys(params)
          /\ ValueOf(params, "wts") = [t |-> "int", v |-> <<"1700000000">>]
          /\ ValueOf(params, "w_rid") =
                ExpectedDigest(params, 1700000000, Keys(params) \ {"w_rid"},
                               <<"K", "L", "i", "2", "R", "8", "n", "w", "f", "O",
                                 "a", "v", "W", "3", "J", "z", "r", "H", "5", "N",
                                 "x", "9", "G", "j", "t", "s", "e", "D", "c", "C",
                                 "F", "d">>)
    /\ (getReq.url = "player") =>
          /\ params # <<>>
          /\ getReq.params = params
          /\ \A i \in 1..Len(getLog) : getLog[i].req.params = params

\* the second attempt, made after one sleep, was sent again after a
\* re-login with the dict signed before the first attempt
C18_Witness ==
    /\ Answered("resend") /\ getReq.url = "player"
    /\ attempt = 2 /\ sleeps = <<"empty">>
    /\ Events(getLog) = <<"send", "login", "resend">>
    /\ getLog[3].req.params = params
    /\ ValueOf(params, "wts") = [t |-> "int", v |-> <<"1700000000">>]

\* C19: whenever construction or a login has returned and the process runs,
\* the session's cookies and cookie.json both hold a non-empty SESSDATA and a
\* non-empty bili_jct.
C19_AuthenticatedBundleUsable ==
    (/\ exitKind = "running"
     /\ pc \notin {"load_cookie", "check_login_status"} \cup LoginPcs) =>
        /\ jar["SESSDATA"] \notin {None, ""} /\ jar["bili_jct"] \notin {None, ""}
        /\ store.state = "ok"
        /\ store.SESSDATA \notin {None, ""} /\ store.bili_jct \notin {None, ""}


\* where a run stands inside a get_subtitle_url call: in its own lines, or
\* in a guarded request it made, the login of that request included
InCall ==
    \/ pc \in {"process_video_part", "gsu_sign", "gsu_attempt", "gsu_after",
               "gsu_sleep", "gsu_except"}
    \/ /\ pc \in {"get_send", "get_resend"} \cup LoginPcs
       /\ getRet \in {"wbi", "lookup"}

\* how far a position is from the end of its loop iteration
Stage(p) ==
    CASE p = "gsu_attempt" -> 9
      [] p = "get_send" -> 8
      [] p = "login_generate" -> 7
      [] p \in {"login_poll", "login_sleep"} -> 6
      [] p = "get_resend" -> 5
      [] p \in {"gsu_sign", "gsu_after"} -> 4
      [] OTHER -> 3

\* a measure of what is left of the call: the iterations still to come, then
\* the position inside the current one; 0 outside the call
Rank ==
    IF ~InCall THEN 0
    ELSE IF pc = "process_video_part" THEN 10 * (3 + 1)
    ELSE 10 * (3 - attempt) + Stage(pc)

\* the counts of a tallied call are within the budget of 3 attempts
WithinBudget ==
    tally.on =>
        /\ attempt \in 0..3
        /\ tally.sent <= 2 * attempt
        /\ tally.sent <= 2 * 3
        /\ tally.logins <= attempt + 1
        /\ tally.logins <= 3 + 1

\* C20: whatever the remote answers, a get_subtitle_url call with a budget of
\* 3 makes at most 3 attempts, sends at most 6 lookup requests and starts at
\* most 4 logins; and every step inside the call, other than a turn of the
\* poll loop of a login, brings the call nearer to its end, so that a call
\* whose logins end does end.
C20_BoundedCall ==
    /\ []WithinBudget
    /\ [][InCall =>
            \/ Rank' < Rank
            \/ /\ pc \in {"login_poll", "login_sleep"}
               /\ pc' \in {"login_poll", "login_sleep"}
               /\ Rank' = Rank]_vars

\* the call that used the budget up: the key material and each of the three
\* attempts were answered with the not-logged-in code and sent again
C20_Witness ==
    /\ tally.on /\ pc = "pvp_after"
    /\ attempt = 3
    /\ tally.sent = 6
    /\ tally.logins = 4
    /\ Len(sleeps) = 3

=============================================================================
